---------------------------- MODULE Spec2Model ----------------------------
(***************************************************************************)
(* King of Diamonds game server (src/server.js): the shared session        *)
(* `game`, the four socket handlers (join, startRound, choice,             *)
(* disconnect) and the deferred endRound callback with its rule stack.     *)
(*                                                                         *)
(* Numbers.  A choice is a JavaScript number in [0, 100].  The model       *)
(* counts in halves: the integer h stands for the number h / 2, so that    *)
(* fractional submissions (15.5) exist and Math.round has work to do.      *)
(* avg and target are kept as exact fractions num / den of halves; on the  *)
(* inputs the model draws, IEEE double arithmetic gives the same           *)
(* comparisons, the same Math.round and the same toFixed(1) as the exact   *)
(* fractions do.                                                           *)
(*                                                                         *)
(* Socket ids.  socket.io gives every connection a fresh id; the k-th      *)
(* connection is named k.  An id is never reused after its disconnect.     *)
(***************************************************************************)
EXTENDS Integers, Sequences, FiniteSets

VARIABLES
    opened,       \* number of connections accepted so far (ids 1..opened)
    sockets,      \* ids of the connections that are currently open
    players,      \* game.players, in insertion order: <<[id, name, health]>>
    round,        \* game.round
    choices,      \* game.choices, in insertion order: <<[id, value]>>
    roundActive,  \* game.roundActive
    timers,       \* pending setTimeout(endRound, 500) callbacks, oldest first;
                  \* each carries the value of game.round when it was scheduled
    out,          \* what the handler that ran last emitted with io.emit
    loc,          \* locals of endRound when the last handler resolved a round
    log           \* the roundStart and result events emitted so far, in order

vars ==
    <<opened, sockets, players, round, choices, roundActive, timers, out, loc,
      log>>

game == <<players, round, choices, roundActive>>

---------------------------------------------------------------------------
(* Bounds of the model *)

MaxSockets == 3       \* connections accepted in Spec
MaxPlayers == 5       \* connections of the largest table of SpecTable
MaxLeaves == 1        \* disconnects in SpecTable
TableRounds == 1      \* rounds started in SpecTable
MaxRound == 3         \* no round is started once game.round has reached this
LiveRounds == 1       \* rounds started in SpecLive
DuelRounds == 6       \* rounds started in SpecDuel
MaxTimers == 2        \* pending endRound callbacks

---------------------------------------------------------------------------
(* Numbers, in halves *)

Num(whole, halves) == 2 * whole + halves

Abs(x) == IF x < 0 THEN -x ELSE x

Min(a, b) == IF a < b THEN a ELSE b

Max(a, b) == IF a > b THEN a ELSE b

\* Math.round of the number h / 2: the nearest integer, halves going up.
MathRound(h) == (h + 1) \div 2

\* Math.round of the fraction f.num / f.den (in halves, f.num >= 0).
MathRoundFrac(f) == (f.num + f.den) \div (2 * f.den)

\* Number.prototype.toFixed(1) of the fraction f.num / f.den (in halves):
\* the count of tenths that is printed.
ToFixed1(f) == (10 * f.num + f.den) \div (2 * f.den)

\* A raw payload of 'choice': [kind |-> "num", h |-> halves] for a number (or
\* anything Number() reads as one), and the kinds "NaN" (anything Number()
\* cannot read), "Infinity" and "-Infinity".
RawNum(whole, halves) == [kind |-> "num", h |-> Num(whole, halves)]

RawNaN == [kind |-> "NaN", h |-> 0]

RawInfinity == [kind |-> "Infinity", h |-> 0]

RawNegInfinity == [kind |-> "-Infinity", h |-> 0]

\* Math.max(0, Math.min(100, Number(num) || 0))
\* Line 39 without Math.max(0, ...)
ClampNoFloor(raw) ==
    IF raw.kind = "NaN" THEN Num(0, 0)
    ELSE IF raw.kind = "Infinity" THEN Num(100, 0)
    ELSE IF raw.kind = "-Infinity" THEN Num(0, 0)
    ELSE Min(Num(100, 0), raw.h)

Clamp(raw) ==
    IF raw.kind = "NaN" THEN Num(0, 0)
    ELSE IF raw.kind = "Infinity" THEN Num(100, 0)
    ELSE IF raw.kind = "-Infinity" THEN Num(0, 0)
    ELSE Max(Num(0, 0), Min(Num(100, 0), raw.h))

---------------------------------------------------------------------------
(* Names: strings as sequences of characters *)

DefaultName == <<"P", "l", "a", "y", "e", "r">>

RECURSIVE TrimLeft(_)
TrimLeft(s) == IF s # <<>> /\ Head(s) = " " THEN TrimLeft(Tail(s)) ELSE s

RECURSIVE TrimRight(_)
TrimRight(s) ==
    IF s # <<>> /\ s[Len(s)] = " " THEN TrimRight(SubSeq(s, 1, Len(s) - 1)) ELSE s

\* (name || '').trim() || 'Player'; "null" is a missing or falsy payload.
Trimmed(name) ==
    LET given == IF name = <<"null">> THEN <<>> ELSE name
        t == TrimRight(TrimLeft(given))
    IN IF t = <<>> THEN DefaultName ELSE t

InitialHealth == 10

---------------------------------------------------------------------------
(* Objects keyed by socket id, in insertion order *)

Keys(obj) == {obj[i].id : i \in DOMAIN obj}

Has(obj, id) == \E i \in DOMAIN obj : obj[i].id = id

Get(obj, id) == obj[CHOOSE i \in DOMAIN obj : obj[i].id = id]

\* obj[id] = entry: an existing key keeps its place, a new key goes last.
Put(obj, entry) ==
    IF Has(obj, entry.id)
    THEN [i \in DOMAIN obj |-> IF obj[i].id = entry.id THEN entry ELSE obj[i]]
    ELSE Append(obj, entry)

\* delete obj[id]
Delete(obj, id) == SelectSeq(obj, LAMBDA e : e.id # id)

---------------------------------------------------------------------------
(* endRound: the rule stack (src/server.js 84-201), as functions of          *)
(* ps = game.players and ch = game.choices                                   *)

RECURSIVE Sum(_)
Sum(ch) == IF ch = <<>> THEN 0 ELSE Head(ch).value + Sum(Tail(ch))

\* nums.reduce((a, b) => a + b, 0) / nums.length
Avg(ch) == [num |-> Sum(ch), den |-> Len(ch)]

\* target from the values chosen once only (the mean after voiding)
TargetOfUnvoided(ch) ==
    LET kept == SelectSeq(ch, LAMBDA e :
                    Cardinality({i \in DOMAIN ch : ch[i].value = e.value}) = 1)
        used == IF kept = <<>> THEN ch ELSE kept
    IN [num |-> 4 * Sum(used), den |-> 5 * Len(used)]

\* avg * 0.8
Target(ch) == [num |-> 4 * Avg(ch).num, den |-> 5 * Avg(ch).den]

UseRule2(ps) == Len(ps) = 2

UseRule3(ps) == Len(ps) <= 3

\* useRule4 with the tier off by one
UseRule4UpTo5(ps) == Len(ps) <= 5

UseRule4(ps) == Len(ps) <= 4

\* Rule 4 with ids.length > 2 for ids.length >= 2
VoidedIdsOfTriples(ps, ch) ==
    IF UseRule4(ps)
    THEN {ch[i].id : i \in {i \in DOMAIN ch :
            Cardinality({j \in DOMAIN ch : ch[j].value = ch[i].value}) > 2}}
    ELSE {}

\* Rule 4: the ids whose value some other id chose too.
VoidedIds(ps, ch) ==
    IF UseRule4(ps)
    THEN {ch[i].id : i \in {i \in DOMAIN ch :
                              \E j \in DOMAIN ch : j # i /\ ch[j].value = ch[i].value}}
    ELSE {}

\* effectiveChoices after Rule 4
EffectiveChoices(ps, ch) == SelectSeq(ch, LAMBDA e : e.id \notin VoidedIds(ps, ch))

NoWinners == <<>>

\* Rule 2 with the ternary of line 135 the wrong way round
ForcedWinnersSwapped(ps, ch) ==
    LET eff == EffectiveChoices(ps, ch)
    IN IF UseRule2(ps) /\ Len(eff) = 2
          /\ Num(0, 0) \in {eff[1].value, eff[2].value}
          /\ Num(100, 0) \in {eff[1].value, eff[2].value}
       THEN <<IF eff[1].value = Num(100, 0) THEN eff[2].id ELSE eff[1].id>>
       ELSE NoWinners

\* Rule 2: forcedWinners, with null as the empty list
ForcedWinners(ps, ch) ==
    LET eff == EffectiveChoices(ps, ch)
    IN IF UseRule2(ps) /\ Len(eff) = 2
          /\ Num(0, 0) \in {eff[1].value, eff[2].value}
          /\ Num(100, 0) \in {eff[1].value, eff[2].value}
       THEN <<IF eff[1].value = Num(100, 0) THEN eff[1].id ELSE eff[2].id>>
       ELSE NoWinners

\* Rule 3 looking at game.choices instead of effectiveChoices
DamagePerLoserAnyChoice(ps, ch) ==
    IF UseRule3(ps)
       /\ \E i \in DOMAIN ch : MathRound(ch[i].value) = MathRoundFrac(Target(ch))
    THEN 2
    ELSE 1

\* Rule 3
DamagePerLoser(ps, ch) ==
    IF UseRule3(ps)
       /\ \E i \in DOMAIN EffectiveChoices(ps, ch) :
             MathRound(EffectiveChoices(ps, ch)[i].value) = MathRoundFrac(Target(ch))
    THEN 2
    ELSE 1

\* Math.abs(choice - target), as a count of 1 / t.den halves
Dist(value, t) == Abs(value * t.den - t.num)

\* Rule 5 without the else-if of lines 197-198: a tie keeps the first id only
RECURSIVE ClosestKeepsFirst(_, _, _)
ClosestKeepsFirst(eff, t, st) ==
    IF eff = <<>> THEN st
    ELSE LET dist == Dist(Head(eff).value, t)
         IN ClosestKeepsFirst(Tail(eff), t,
                IF st.closest = -1 \/ dist < st.closest
                THEN [closest |-> dist, winners |-> <<Head(eff).id>>]
                ELSE st)

\* Rule 5: the forEach over effectiveChoices, st = [closest, winners];
\* closest = -1 stands for Infinity.
RECURSIVE Closest(_, _, _)
Closest(eff, t, st) ==
    IF eff = <<>> THEN st
    ELSE LET dist == Dist(Head(eff).value, t)
         IN Closest(Tail(eff), t,
                IF st.closest = -1 \/ dist < st.closest
                THEN [closest |-> dist, winners |-> <<Head(eff).id>>]
                ELSE IF dist = st.closest
                THEN [closest |-> st.closest, winners |-> Append(st.winners, Head(eff).id)]
                ELSE st)

\* Lines 186-201: forcedWinners if set, else the closest effective choices.
Winners(ps, ch) ==
    IF ForcedWinners(ps, ch) # NoWinners THEN ForcedWinners(ps, ch)
    ELSE Closest(EffectiveChoices(ps, ch), Target(ch),
                 [closest |-> -1, winners |-> NoWinners]).winners

Includes(list, id) == \E i \in DOMAIN list : list[i] = id

\* Lines 156-160: every player loses damagePerLoser.  (health is never
\* undefined: join is the only writer of game.players and always sets it.)
DamageAll(ps, ch) ==
    [i \in DOMAIN ps |-> [ps[i] EXCEPT !.health = @ - DamagePerLoser(ps, ch)]]

\* Lines 206-214 sparing the players that have no entry in choices
ApplyDamageSubmittersOnly(ps, ch) ==
    [i \in DOMAIN ps |->
        IF Includes(Winners(ps, ch), ps[i].id) \/ ~Has(ch, ps[i].id)
        THEN ps[i]
        ELSE [ps[i] EXCEPT !.health = @ - DamagePerLoser(ps, ch)]]

\* Lines 206-214: every player that is not in winners loses damagePerLoser.
ApplyDamage(ps, ch) ==
    [i \in DOMAIN ps |->
        IF Includes(Winners(ps, ch), ps[i].id)
        THEN ps[i]
        ELSE [ps[i] EXCEPT !.health = @ - DamagePerLoser(ps, ch)]]

---------------------------------------------------------------------------
(* What io.emit sends *)

PlayersEvent(ps) == [ev |-> "players", players |-> ps]

RoundStartEvent(r) == [ev |-> "roundStart", round |-> r]

\* The result object built at lines 162-177 and 216-231; avg and target are
\* the tenths that toFixed(1) prints.
ResultEvent(ps, r, ch, winners, forcedWinners) ==
    [ev |-> "result",
     round |-> r,
     avg |-> ToFixed1(Avg(ch)),
     target |-> ToFixed1(Target(ch)),
     winners |-> winners,
     choices |-> ch,
     playerCount |-> Len(ps),
     useRule2 |-> UseRule2(ps),
     useRule3 |-> UseRule3(ps),
     useRule4 |-> UseRule4(ps),
     voidedIds |-> VoidedIds(ps, ch),
     forcedWinners |-> forcedWinners,
     damagePerLoser |-> DamagePerLoser(ps, ch)]

\* endRound's locals that are not sent as they are.
Locals(ps, ch) ==
    [resolved |-> TRUE,
     playerIds |-> [i \in DOMAIN ps |-> ps[i].id],
     avg |-> Avg(ch),
     target |-> Target(ch),
     effectiveChoices |-> EffectiveChoices(ps, ch)]

NoLocals ==
    [resolved |-> FALSE,
     playerIds |-> <<>>,
     avg |-> [num |-> 0, den |-> 1],
     target |-> [num |-> 0, den |-> 1],
     effectiveChoices |-> <<>>]

\* What the log keeps of an emitted roundStart or result: its round number.
Logged(event) == [ev |-> event.ev, round |-> event.round]

---------------------------------------------------------------------------
(* Inputs *)

\* 'join' payloads drawn in Spec: missing and blank; both are stored as 'Player'.
NameInputs == {<<"null">>, <<" ">>}

\* 'join' payloads drawn in SpecTable: missing, and a name with blanks around it.
TableNames == {<<"null">>, <<" ", "A", " ">>}

\* 'choice' payloads drawn in Spec: they are stored as 0, 0, 0, 100, 100.
ChoiceInputs == {RawNaN, RawNegInfinity, RawNum(-5, 0), RawNum(150, 0), RawInfinity}

\* 'choice' payloads drawn in SpecTable at a table of at most 4 players
SmallTableInputs ==
    {RawNum(0, 0), RawNum(0, 1), RawNum(3, 0), RawNum(4, 0), RawNum(100, 0)}

\* 'choice' payloads drawn in SpecTable at a table of 5 players or more
BigTableInputs == {RawNum(0, 0), RawNum(19, 0), RawNum(100, 0)}

TableInputs == IF opened >= 5 THEN BigTableInputs ELSE SmallTableInputs

---------------------------------------------------------------------------
(* The handlers *)

Init ==
    /\ opened = 0
    /\ sockets = {}
    /\ players = <<>>
    /\ round = 1
    /\ choices = <<>>
    /\ roundActive = FALSE
    /\ timers = <<>>
    /\ out = <<>>
    /\ loc = NoLocals
    /\ log = <<>>

\* io.on('connection'): a new socket with a fresh id
Connect ==
    /\ opened < MaxSockets
    /\ opened' = opened + 1
    /\ sockets' = sockets \cup {opened + 1}
    /\ out' = <<>>
    /\ loc' = NoLocals
    /\ UNCHANGED <<players, round, choices, roundActive, timers, log>>

\* 'join' without line 21 (if (!game.players[socket.id]))
JoinReRegisters(s, name) ==
    /\ s \in sockets
    /\ players' = Put(players, [id |-> s, name |-> Trimmed(name),
                                health |-> InitialHealth])
    /\ out' = <<PlayersEvent(players')>>
    /\ loc' = NoLocals
    /\ UNCHANGED <<opened, sockets, round, choices, roundActive, timers, log>>

\* socket.on('join')
Join(s, name) ==
    /\ s \in sockets
    /\ players' = IF Has(players, s) THEN players
                  ELSE Append(players, [id |-> s, name |-> Trimmed(name),
                                        health |-> InitialHealth])
    /\ out' = <<PlayersEvent(players')>>
    /\ loc' = NoLocals
    /\ UNCHANGED <<opened, sockets, round, choices, roundActive, timers, log>>

\* startRound without line 31 (game.choices = {})
StartRoundKeepsChoices(s) ==
    /\ s \in sockets
    /\ IF Len(players) >= 2 /\ ~roundActive
       THEN /\ roundActive' = TRUE
            /\ out' = <<RoundStartEvent(round)>>
            /\ log' = Append(log, Logged(RoundStartEvent(round)))
       ELSE /\ UNCHANGED <<roundActive, log>>
            /\ out' = <<>>
    /\ loc' = NoLocals
    /\ UNCHANGED <<opened, sockets, players, round, timers, choices>>

\* startRound without the !game.roundActive half of line 29
StartRoundAnytime(s) ==
    /\ s \in sockets
    /\ IF Len(players) >= 2
       THEN /\ roundActive' = TRUE
            /\ choices' = <<>>
            /\ out' = <<RoundStartEvent(round)>>
            /\ log' = Append(log, Logged(RoundStartEvent(round)))
       ELSE /\ UNCHANGED <<roundActive, choices, log>>
            /\ out' = <<>>
    /\ loc' = NoLocals
    /\ UNCHANGED <<opened, sockets, players, round, timers>>

\* socket.on('startRound')
StartRound(s) ==
    /\ s \in sockets
    /\ IF Len(players) >= 2 /\ ~roundActive
       THEN /\ roundActive' = TRUE
            /\ choices' = <<>>
            /\ out' = <<RoundStartEvent(round)>>
            /\ log' = Append(log, Logged(RoundStartEvent(round)))
       ELSE /\ UNCHANGED <<roundActive, choices, log>>
            /\ out' = <<>>
    /\ loc' = NoLocals
    /\ UNCHANGED <<opened, sockets, players, round, timers>>

\* 'choice' without line 38 (if (!game.roundActive) return)
ChoiceAnytime(s, raw) ==
    /\ s \in sockets
    /\ choices' = Put(choices, [id |-> s, value |-> Clamp(raw)])
    /\ IF Len(choices') = Len(players)
       THEN /\ Len(timers) < MaxTimers
            /\ timers' = Append(timers, round)
       ELSE UNCHANGED timers
    /\ out' = <<>>
    /\ loc' = NoLocals
    /\ UNCHANGED <<opened, sockets, players, round, roundActive, log>>

\* socket.on('choice')
Choice(s, raw) ==
    /\ s \in sockets
    /\ IF ~roundActive
       THEN UNCHANGED <<choices, timers>>
       ELSE /\ choices' = Put(choices, [id |-> s, value |-> Clamp(raw)])
            /\ IF Len(choices') = Len(players)
               THEN /\ Len(timers) < MaxTimers
                    /\ timers' = Append(timers, round)
               ELSE UNCHANGED timers
    /\ out' = <<>>
    /\ loc' = NoLocals
    /\ UNCHANGED <<opened, sockets, players, round, roundActive, log>>

\* socket.on('disconnect')
Disconnect(s) ==
    /\ s \in sockets
    /\ sockets' = sockets \ {s}
    /\ players' = Delete(players, s)
    /\ out' = <<PlayersEvent(players')>>
    /\ loc' = NoLocals
    /\ UNCHANGED <<opened, round, choices, roundActive, timers, log>>

\* The all-voided branch without line 181 (game.round += 1)
AllVoidedNoAdvance ==
    /\ players' = DamageAll(players, choices)
    /\ out' = <<ResultEvent(players, round, choices, NoWinners, NoWinners),
                PlayersEvent(players')>>
    /\ loc' = Locals(players, choices)
    /\ log' = Append(log, Logged(out'[1]))
    /\ round' = round

\* Lines 152-183: every effective choice was voided.
AllVoided ==
    /\ players' = DamageAll(players, choices)
    /\ out' = <<ResultEvent(players, round, choices, NoWinners, NoWinners),
                PlayersEvent(players')>>
    /\ loc' = Locals(players, choices)
    /\ log' = Append(log, Logged(out'[1]))
    /\ round' = round + 1

\* Lines 185-238: Rule 5 and the HP changes.
ClosestWin ==
    /\ players' = ApplyDamage(players, choices)
    /\ out' = <<ResultEvent(players, round, choices, Winners(players, choices),
                            ForcedWinners(players, choices)),
                PlayersEvent(players')>>
    /\ loc' = Locals(players, choices)
    /\ log' = Append(log, Logged(out'[1]))
    /\ round' = round + 1

\* endRound without line 81 (if (!game.roundActive) return)
EndRoundUnguarded ==
    /\ timers # <<>>
    /\ timers' = Tail(timers)
    /\ roundActive' = FALSE
    /\ IF choices = <<>>
       THEN /\ UNCHANGED <<players, round, log>>
            /\ out' = <<>>
            /\ loc' = NoLocals
       ELSE IF EffectiveChoices(players, choices) = <<>>
       THEN AllVoided
       ELSE ClosestWin
    /\ UNCHANGED <<opened, sockets, choices>>

\* endRound returning when the two counts of line 43 no longer agree
EndRoundRecounts ==
    /\ timers # <<>>
    /\ timers' = Tail(timers)
    /\ IF ~roundActive \/ Len(choices) # Len(players)
       THEN /\ UNCHANGED <<players, round, roundActive, log>>
            /\ out' = <<>>
            /\ loc' = NoLocals
       ELSE /\ roundActive' = FALSE
            /\ IF choices = <<>>
               THEN /\ UNCHANGED <<players, round, log>>
                    /\ out' = <<>>
                    /\ loc' = NoLocals
               ELSE IF EffectiveChoices(players, choices) = <<>>
               THEN AllVoided
               ELSE ClosestWin
    /\ UNCHANGED <<opened, sockets, choices>>

\* The oldest pending timer fires: endRound()
EndRound ==
    /\ timers # <<>>
    /\ timers' = Tail(timers)
    /\ IF ~roundActive
       THEN /\ UNCHANGED <<players, round, roundActive, log>>
            /\ out' = <<>>
            /\ loc' = NoLocals
       ELSE /\ roundActive' = FALSE
            /\ IF choices = <<>>
               THEN /\ UNCHANGED <<players, round, log>>
                    /\ out' = <<>>
                    /\ loc' = NoLocals
               ELSE IF EffectiveChoices(players, choices) = <<>>
               THEN AllVoided
               ELSE ClosestWin
    /\ UNCHANGED <<opened, sockets, choices>>

Next ==
    \/ Connect
    \/ \E s \in sockets, name \in NameInputs : Join(s, name)
    \/ \E s \in sockets : round < MaxRound /\ StartRound(s)
    \/ \E s \in sockets, raw \in ChoiceInputs : Choice(s, raw)
    \/ \E s \in sockets : Disconnect(s)
    \/ EndRound

Spec == Init /\ [][Next]_vars

\* 'choice' payloads drawn in SpecLive: they are stored as 0 and 100.
LiveInputs == {RawNaN, RawInfinity}

\* The first LiveRounds rounds of Spec.
NextLive ==
    \/ Connect
    \/ \E s \in sockets : Join(s, <<"null">>)
    \/ \E s \in sockets : round <= LiveRounds /\ StartRound(s)
    \/ \E s \in sockets, raw \in LiveInputs : Choice(s, raw)
    \/ \E s \in sockets : Disconnect(s)
    \/ EndRound

\* Node runs the callback of every setTimeout whose delay has expired.
SpecLive == Init /\ [][NextLive]_vars /\ WF_vars(EndRound)

---------------------------------------------------------------------------
(* Tables of up to MaxPlayers connections.  The session starts with n       *)
(* connections open, all of them joined or all but the last; a socket       *)
(* submits when every open socket with a smaller id has an entry, and at    *)
(* most MaxLeaves sockets disconnect.                                       *)

Seat(i) == [id |-> i, name |-> DefaultName, health |-> InitialHealth]

InitTable ==
    \E n \in 2..MaxPlayers :
      \E seated \in {k \in {n - 1, n} : k >= 2} :
        /\ opened = n
        /\ sockets = 1..n
        /\ players = [i \in 1..seated |-> Seat(i)]
        /\ round = 1
        /\ choices = <<>>
        /\ roundActive = FALSE
        /\ timers = <<>>
        /\ out = <<>>
        /\ loc = NoLocals
        /\ log = <<>>

InTurn(s) == \A t \in sockets : t < s => Has(choices, t)

NextTable ==
    \/ \E s \in sockets, name \in TableNames : Join(s, name)
    \/ \E s \in sockets : round <= TableRounds /\ StartRound(s)
    \/ \E s \in sockets, raw \in TableInputs :
          ~Has(choices, s) /\ InTurn(s) /\ Choice(s, raw)
    \/ \E s \in sockets : opened - Cardinality(sockets) < MaxLeaves /\ Disconnect(s)
    \/ EndRound

SpecTable == InitTable /\ [][NextTable]_vars

---------------------------------------------------------------------------
(* A duel: two connections that stay open and play DuelRounds rounds, which  *)
(* is long enough for health to pass 0.  In round 1 they join under any     *)
(* name and submit any payload, in any order and as often as they like;     *)
(* from round 2 on they submit once per round, in turn, 0 or 0.5, and a     *)
(* join is a repeated one.                                                  *)

\* 'choice' payloads drawn in round 1 of SpecDuel: stored as 0, 0, 0.5, 100.
FirstDuelInputs == {RawNaN, RawNum(-5, 0), RawNum(0, 1), RawNum(150, 0)}

\* 'choice' payloads drawn in the later rounds of SpecDuel
LaterDuelInputs == {RawNum(0, 0), RawNum(0, 1)}

DuelInputs == IF round = 1 THEN FirstDuelInputs ELSE LaterDuelInputs

InitDuel ==
    /\ opened = 2
    /\ sockets = {1, 2}
    /\ players = <<>>
    /\ round = 1
    /\ choices = <<>>
    /\ roundActive = FALSE
    /\ timers = <<>>
    /\ out = <<>>
    /\ loc = NoLocals
    /\ log = <<>>

NextDuel ==
    \/ \E s \in sockets, name \in TableNames :
          (round = 1 \/ Has(players, s)) /\ Join(s, name)
    \/ \E s \in sockets : round <= DuelRounds /\ StartRound(s)
    \/ \E s \in sockets, raw \in DuelInputs :
          (round = 1 \/ (~Has(choices, s) /\ InTurn(s))) /\ Choice(s, raw)
    \/ EndRound

SpecDuel == InitDuel /\ [][NextDuel]_vars

---------------------------------------------------------------------------
(* Vocabulary of the properties *)

\* The handler that ran last was an endRound that resolved a round.
Resolved == loc.resolved

\* The result that resolution emitted.
Result == out[1]

\* This step is an endRound call: only endRound takes a timer off the queue.
EndRoundStep == timers # <<>> /\ timers' = Tail(timers)

\* This step is a startRound that started a round.
RoundStarted == ~roundActive /\ roundActive'

Registered == Keys(players)

Submitted == Keys(choices)

Health(ps, id) == Get(ps, id).health

---------------------------------------------------------------------------
(* C1: whenever endRound resolves a round, every player registered at that  *)
(* moment has an entry in choices.  The code resolves on the timer whatever *)
(* happened during the 500 ms, so this fails.                               *)
C1_ResolvedOnlyWhenAllSubmitted == Resolved => Registered \subseteq Submitted

---------------------------------------------------------------------------
(* C2: one resolution per started round.  A resolution needs roundActive    *)
(* and clears it, only a successful startRound (which emits roundStart)     *)
(* sets it again, and an endRound call that finds roundActive false changes *)
(* nothing of the session.                                                  *)
C2_OneResolutionPerRound ==
    [][ /\ Resolved' => roundActive /\ ~roundActive'
        /\ RoundStarted => out' = <<RoundStartEvent(round)>>
        /\ (EndRoundStep /\ ~roundActive) => UNCHANGED game ]_vars

\* A round has been resolved and a second deferred endRound is still pending.
C2_Witness == ~roundActive /\ round > 1 /\ timers # <<>>

---------------------------------------------------------------------------
(* C3: round starts at 1 and changes only by +1, only in a resolving        *)
(* endRound, and in every one of them, the all-voided one included.         *)
C3_RoundCounter ==
    /\ round = 1
    /\ [][ /\ round' # round => round' = round + 1 /\ Resolved' /\ EndRoundStep
           /\ Resolved' => round' = round + 1 ]_vars

\* A round was resolved with every choice voided.
C3_Witness == Resolved /\ loc.effectiveChoices = <<>> /\ round > 1

---------------------------------------------------------------------------
(* C4 as stated: the keys of choices are always keys of players.            *)
C4_ChoicesSubsetPlayers == Submitted \subseteq Registered

(* C4 amended: the keys of choices that are not keys of players grow only   *)
(* by one id at a time, and only when a submitter disconnects or a          *)
(* connection that is not registered submits in an active round; join,      *)
(* startRound and endRound add none, and a successful startRound leaves     *)
(* none.                                                                    *)
Stale == Submitted \ Registered

C4_StaleOnlyByLeaveOrUnjoined ==
    [][ /\ \/ Stale' \subseteq Stale
           \/ \E id \in sockets :
                /\ Stale' = Stale \cup {id}
                /\ \/ id \notin sockets' /\ id \in Registered /\ id \in Submitted
                   \/ /\ id \in sockets' /\ id \notin Registered /\ roundActive
                      /\ id \notin Submitted /\ id \in Submitted'
        /\ RoundStarted => Stale' = {} ]_vars

\* Both kinds of stale key at once: a submitter that has disconnected and an
\* open connection that submitted without joining.
C4_Witness ==
    /\ \E id \in Stale : id \notin sockets
    /\ \E id \in Stale : id \in sockets

---------------------------------------------------------------------------
(* Reference arithmetic of the properties, written from the rules and not   *)
(* from endRound's operators.  Values are halves; with S the sum of all     *)
(* values in choices and L their number, target = 4 S / (5 L) halves.       *)

RECURSIVE SumTo(_, _)
SumTo(ch, k) == IF k = 0 THEN 0 ELSE ch[k].value + SumTo(ch, k - 1)

Total(ch) == SumTo(ch, Len(ch))

\* |choice - target| of entry i, in units of 1 / (5 L) halves
RefDist(ch, i) == Abs(5 * Len(ch) * ch[i].value - 4 * Total(ch))

\* target rounded to the nearest integer, halves up
RefRoundedTarget(ch) == (4 * Total(ch) + 5 * Len(ch)) \div (10 * Len(ch))

\* a value rounded to the nearest integer, halves up
RefRounded(v) == (v + 1) \div 2

\* entry i's value was submitted by another id too
Duplicated(ch, i) == \E j \in DOMAIN ch : j # i /\ ch[j].value = ch[i].value

AsSet(list) == {list[i] : i \in DOMAIN list}

NoRepeats(list) == Cardinality(AsSet(list)) = Len(list)

---------------------------------------------------------------------------
(* C5: at every resolution avg is the mean of all values in choices and     *)
(* target is 0.8 times it, voided values included; the result carries both  *)
(* to one decimal.                                                          *)
C5_TargetIsFourFifthsOfMean ==
    Resolved =>
      /\ loc.avg.num * Len(choices) = Total(choices) * loc.avg.den
      /\ 5 * Len(choices) * loc.target.num = 4 * Total(choices) * loc.target.den
      /\ Result.avg = (10 * Total(choices) + Len(choices)) \div (2 * Len(choices))
      /\ Result.target = (8 * Total(choices) + Len(choices)) \div (2 * Len(choices))

\* A resolution in which Rule 4 voided some choices and kept others.
C5_Witness == Resolved /\ Result.voidedIds # {} /\ loc.effectiveChoices # <<>>

---------------------------------------------------------------------------
---------------------------------------------------------------------------
(* C7: at a resolution with at most 4 registered players the voided ids are *)
(* exactly the ids whose value another id submitted too; a voided id is not *)
(* a winner and, if registered, loses exactly damagePerLoser.               *)
C7_DuplicatesVoided ==
    [][ (Resolved' /\ Len(players) <= 4)
        => /\ Result'.voidedIds =
                {choices[i].id : i \in {i \in DOMAIN choices : Duplicated(choices, i)}}
           /\ \A id \in Result'.voidedIds :
                /\ ~Includes(Result'.winners, id)
                /\ id \in Registered =>
                     Health(players', id) = Health(players, id) - Result'.damagePerLoser
      ]_vars

\* A voided, registered player whose value was nearest to the target of all,
\* in a round that somebody else won.
C7_Witness ==
    /\ Resolved /\ Result.playerCount <= 4 /\ Result.winners # <<>>
    /\ \E i \in DOMAIN choices :
          /\ choices[i].id \in Result.voidedIds
          /\ choices[i].id \in Registered
          /\ \A j \in DOMAIN choices : RefDist(choices, i) <= RefDist(choices, j)

---------------------------------------------------------------------------
(* C8: at a resolution with 5 or more registered players nothing is voided, *)
(* no winner is forced, damagePerLoser is 1 and the winners are exactly the *)
(* submitters nearest to the target, each once.                             *)
C8_FiveOrMoreIsPureClosest ==
    (Resolved /\ Len(players) >= 5)
    => /\ Result.voidedIds = {}
       /\ Result.forcedWinners = NoWinners
       /\ Result.damagePerLoser = 1
       /\ AsSet(Result.winners) =
            {choices[i].id : i \in {i \in DOMAIN choices :
                \A j \in DOMAIN choices : RefDist(choices, i) <= RefDist(choices, j)}}
       /\ NoRepeats(Result.winners)

\* A table of 5 or more with a duplicated value, the pair 0 and 100, and a
\* choice equal to the rounded target.
C8_Witness ==
    /\ Resolved /\ Len(players) >= 5
    /\ \E i \in DOMAIN choices : Duplicated(choices, i)
    /\ \E i, j \in DOMAIN choices :
          choices[i].value = Num(0, 0) /\ choices[j].value = Num(100, 0)
    /\ \E i \in DOMAIN choices :
          RefRounded(choices[i].value) = RefRoundedTarget(choices)

---------------------------------------------------------------------------
(* C9: damagePerLoser is 2 exactly when at most 3 players are registered    *)
(* and some choice that is not voided rounds to the rounded target, and 1   *)
(* otherwise; every registered player who is not a winner loses exactly it. *)
C9_DoubleDamage ==
    [][ Resolved'
        => LET exact == /\ Len(players) <= 3
                        /\ \E i \in DOMAIN choices :
                              /\ ~Duplicated(choices, i)
                              /\ RefRounded(choices[i].value) = RefRoundedTarget(choices)
           IN /\ Result'.damagePerLoser = IF exact THEN 2 ELSE 1
              /\ \A id \in Registered :
                    ~Includes(Result'.winners, id) =>
                       Health(players', id) = Health(players, id) - Result'.damagePerLoser
      ]_vars

\* Only voided choices round to the rounded target, at a table of at most 3:
\* the damage stays 1.
C9_Witness ==
    /\ Resolved /\ Result.playerCount <= 3 /\ Result.damagePerLoser = 1
    /\ \E i \in DOMAIN choices :
          /\ Duplicated(choices, i)
          /\ RefRounded(choices[i].value) = RefRoundedTarget(choices)
    /\ \E i \in DOMAIN players : players[i].health = InitialHealth - 1

---------------------------------------------------------------------------
(* C10: without a forced winner, the winners are exactly the ids that are   *)
(* not voided and whose distance to the target is least among those, every  *)
(* tied id once; the list is empty exactly when every choice was voided.    *)
C10_WinnersAreClosestEffective ==
    (Resolved /\ Result.forcedWinners = NoWinners)
    => LET eff == {i \in DOMAIN choices : choices[i].id \notin Result.voidedIds}
       IN /\ AsSet(Result.winners) =
               {choices[i].id : i \in {i \in eff :
                   \A j \in eff : RefDist(choices, i) <= RefDist(choices, j)}}
          /\ NoRepeats(Result.winners)
          /\ Result.winners = <<>> <=> Submitted \subseteq Result.voidedIds

\* Two effective choices tie for the least distance while others are voided.
C10_Witness ==
    /\ Resolved /\ Result.forcedWinners = NoWinners
    /\ Len(Result.winners) >= 2 /\ Result.voidedIds # {}

---------------------------------------------------------------------------
(* C11: a resolution keeps the roster and takes damagePerLoser from every   *)
(* registered player that is not in winners, voided or without an entry in  *)
(* choices as well, and nothing from a winner; when every submitted choice  *)
(* is voided, winners is empty, so every registered player pays.            *)
C11_LosersPayDamage ==
    [][ Resolved' =>
          /\ Len(players') = Len(players)
          /\ \A i \in DOMAIN players :
                /\ players'[i].id = players[i].id
                /\ players'[i].name = players[i].name
                /\ players'[i].health =
                     IF players[i].id \in AsSet(Result'.winners)
                     THEN players[i].health
                     ELSE players[i].health - Result'.damagePerLoser
          /\ Submitted \subseteq Result'.voidedIds => Result'.winners = <<>>
      ]_vars

\* A resolution with a winner, a voided loser and a registered player that
\* never submitted: both have paid.
C11_Witness ==
    /\ Resolved /\ Result.winners # <<>>
    /\ \E id \in Registered \ Submitted :
          Health(players, id) = InitialHealth - Result.damagePerLoser
    /\ \E id \in Registered \cap Result.voidedIds :
          Health(players, id) = InitialHealth - Result.damagePerLoser

---------------------------------------------------------------------------
(* C12: roundActive becomes true only with at least 2 registered players,   *)
(* and that step empties choices, keeps round and players and emits         *)
(* roundStart with the current round; roundStart is emitted and choices is  *)
(* emptied by no other step, and while a round is active no step takes an   *)
(* entry out of choices or starts the round again.                          *)
C12_StartRoundGuard ==
    [][ /\ RoundStarted =>
              /\ Len(players) >= 2
              /\ choices' = <<>>
              /\ UNCHANGED <<players, round>>
              /\ out' = <<RoundStartEvent(round)>>
              /\ log' = Append(log, Logged(RoundStartEvent(round)))
        /\ (log' # log /\ log'[Len(log')].ev = "roundStart") => RoundStarted
        /\ (choices # <<>> /\ choices' = <<>>) => RoundStarted
        /\ (roundActive \/ Len(players) < 2) =>
              /\ Submitted \subseteq Submitted'
              /\ out' # <<RoundStartEvent(round)>>
      ]_vars

\* A round was started over the choices of the round before, and a choice
\* has come in: startRound is refused here.
C12_Witness ==
    /\ roundActive /\ round > 1 /\ choices # <<>>
    /\ log[Len(log)] = Logged(RoundStartEvent(round))

---------------------------------------------------------------------------
(* C13: while roundActive is false, choices changes in no step but the one  *)
(* that starts a round, which empties it, and no deferred endRound is       *)
(* scheduled: joins, disconnects, choice events and timers that fire leave  *)
(* the choices of the resolved round as they were.                          *)
C13_ChoicesFrozenWhileInactive ==
    [][ ~roundActive =>
          /\ choices' # choices => RoundStarted /\ choices' = <<>>
          /\ timers' = timers \/ EndRoundStep
      ]_vars

\* A resolved round whose choices are still there, with a second timer
\* pending and a roster that has changed since.
C13_Witness ==
    /\ ~roundActive /\ round > 1 /\ choices # <<>> /\ timers # <<>>
    /\ Registered # Submitted

---------------------------------------------------------------------------
(* C14 as stated: every value stored in choices is an integer in 0..100.    *)
C14_IntegerChoices ==
    \A i \in DOMAIN choices : \E k \in 0..100 : choices[i].value = Num(k, 0)

\* What the claim says is stored for a payload.
RefStored(raw) ==
    CASE raw.kind = "NaN" -> Num(0, 0)
      [] raw.kind = "num" /\ raw.h < Num(0, 0) -> Num(0, 0)
      [] raw.kind = "num" /\ raw.h > Num(100, 0) -> Num(100, 0)
      [] raw.kind = "num" /\ raw.h >= Num(0, 0) /\ raw.h <= Num(100, 0) -> raw.h

(* C14 amended: every value stored in choices is a number in [0, 100], an   *)
(* integer or not: a payload below 0 is stored as 0, one above 100 as 100,  *)
(* a non-numeric one as 0 and one in range as it is.  A submission sets the *)
(* entry of its own id, in place if there was one, and leaves every other   *)
(* entry as it was.                                                         *)
C14_ClampedChoices ==
    [][ /\ \A i \in DOMAIN choices' :
              choices'[i].value >= Num(0, 0) /\ choices'[i].value <= Num(100, 0)
        /\ \A raw \in FirstDuelInputs \cup LaterDuelInputs :
              Clamp(raw) = RefStored(raw)
        /\ (roundActive /\ choices' # choices) =>
              \E s \in sockets, raw \in DuelInputs :
                /\ Submitted' = Submitted \cup {s}
                /\ Get(choices', s).value = RefStored(raw)
                /\ \A id \in Submitted \ {s} : Get(choices', id) = Get(choices, id)
                /\ \A i \in DOMAIN choices : choices'[i].id = choices[i].id
      ]_vars

\* Both players have submitted and one of them again: 0.5 stands next to
\* the 100 that 150 was stored as.
C14_Witness ==
    /\ roundActive /\ Len(timers) = 2
    /\ \E i, j \in DOMAIN choices :
          choices[i].value = Num(0, 1) /\ choices[j].value = Num(100, 0)

---------------------------------------------------------------------------
(* C15: a player is registered with health 10; from then on its name stays  *)
(* and its health never rises: it changes only in a resolving endRound, by  *)
(* 1 or 2 downwards, below 0 as well.  A step that is not a resolution      *)
(* and registers nobody, a repeated join for one, leaves players as it was. *)
C15_HealthOnlyDecreases ==
    [][ /\ \A id \in Registered' \ Registered :
              Health(players', id) = InitialHealth
        /\ \A id \in Registered' \cap Registered :
              /\ Get(players', id).name = Get(players, id).name
              /\ Health(players', id) # Health(players, id) =>
                    /\ Resolved' /\ EndRoundStep
                    /\ Health(players, id) - Health(players', id) \in {1, 2}
        /\ (Registered' = Registered /\ ~Resolved') => players' = players
      ]_vars

\* After joining as A next to Player, a player has lost round after round
\* and stands below 0.
C15_Witness ==
    /\ \E i \in DOMAIN players : players[i].health < 0
    /\ \E i, j \in DOMAIN players :
          players[i].name = <<"A">> /\ players[j].name = DefaultName

---------------------------------------------------------------------------
(* C16: an endRound call that finds roundActive true and choices empty is a *)
(* no-op: the round stays active and players, round and choices stay as     *)
(* they were.  The code clears roundActive (line 82) before it looks at     *)
(* choices (line 86), so this fails.                                        *)
C16_EmptyEndRoundIsNoOp ==
    [][ (EndRoundStep /\ roundActive /\ choices = <<>>) =>
            roundActive' /\ UNCHANGED game ]_vars

---------------------------------------------------------------------------
(* C17: a deferred endRound that was scheduled in round r and fires when    *)
(* round r has been resolved (game.round has moved past r) changes nothing  *)
(* of the session, whether or not the next round has been started.  The     *)
(* callback carries no round number and looks at roundActive only, so this  *)
(* fails.                                                                   *)
C17_StaleTimerIsDiscarded ==
    [][ (EndRoundStep /\ Head(timers) < round) => UNCHANGED game ]_vars

---------------------------------------------------------------------------
(* C18: every resolution has a playerCount of at least 2.  playerCount is   *)
(* the number of players registered when the timer fires, and disconnect    *)
(* removes players during the round, so this fails.                         *)
C18_AtLeastTwoPlayers == Resolved => Result.playerCount >= 2

---------------------------------------------------------------------------
(* C19 as stated: in an active round, once every registered player has      *)
(* submitted, the round is eventually resolved if no join or disconnect     *)
(* follows and timers fire.  Only a timer resolves a round and only a       *)
(* choice event sets one, so the claim needs a timer to be pending in every *)
(* such state: from one without, the run in which no further event arrives  *)
(* never resolves the round.                                                *)
AllSubmitted == roundActive /\ players # <<>> /\ Registered \subseteq Submitted

C19_AllSubmittedIsPending == AllSubmitted => timers # <<>>

(* C19 amended: in an active round, once every registered player has        *)
(* submitted and a deferred endRound is pending, the round is eventually    *)
(* resolved, whatever joins and disconnects follow; and a deferred endRound *)
(* is set only by a choice event that leaves choices with as many entries   *)
(* as there are registered players.                                         *)
C19_PendingRoundResolves ==
    /\ \A r \in 1..LiveRounds :
          (AllSubmitted /\ timers # <<>> /\ round = r) ~> (round = r + 1)
    /\ [][ Len(timers') > Len(timers) =>
             /\ roundActive /\ choices' # <<>> /\ Len(choices') = Len(players)
             /\ timers' = Append(timers, round)
             /\ UNCHANGED <<players, round, roundActive>> ]_vars

\* Every registered player has submitted, a deferred endRound is pending
\* and choices holds the entry of a player that has left.
C19_Witness ==
    /\ AllSubmitted /\ timers # <<>>
    /\ \E id \in Stale : id \notin sockets

---------------------------------------------------------------------------
(* The order of the roundStart and result events *)

Results == SelectSeq(log, LAMBDA e : e.ev = "result")

\* The result events carry the round numbers 1, 2, 3, ... in order.
ResultsConsecutive == \A k \in DOMAIN Results : Results[k].round = k

\* A result of round r comes after a roundStart of round r.
ResultAfterItsStart ==
    \A i \in DOMAIN log :
        log[i].ev = "result" =>
            \E j \in 1..(i - 1) : log[j] = Logged(RoundStartEvent(log[i].round))

\* No two results come without a roundStart between them.
OneResultPerStart ==
    \A i \in DOMAIN log :
        log[i].ev = "result" => i > 1 /\ log[i - 1].ev = "roundStart"

\* No two roundStart events carry the same round number.
StartsNotRepeated ==
    \A i, j \in DOMAIN log :
        (i < j /\ log[i].ev = "roundStart" /\ log[j].ev = "roundStart")
            => log[i].round # log[j].round

(* C20: the result events carry the round numbers 1, 2, 3, ... in order;    *)
(* a result of round r comes after a roundStart of round r; no two results  *)
(* come without a roundStart between them; and no two roundStart events     *)
(* carry the same round number.  The last part fails: a round that endRound *)
(* has deactivated without resolving it is started again under its number.  *)
C20_NotificationOrder ==
    /\ ResultsConsecutive
    /\ ResultAfterItsStart
    /\ OneResultPerStart
    /\ StartsNotRepeated

====
